---- MODULE Spec2Model ----
\* Model of class Date (src/main.py): validated construction, comparison,
\* day difference, day offset, leap-year query and day-of-week lookup.
\* A run constructs two Dates (a, b), then applies operations to them; an
\* exception that nothing catches ends the run, and Restart begins a new one.
EXTENDS Integers, Sequences, FiniteSets, TLC

\* ------------------------------------------------------------------ bounds
\* offsets -MaxStep..MaxStep are tried by d + n next to the fixed long offsets
MaxStep == 1

\* ------------------------------------------------------- python values
\* A Python value is its type together with its numeric value: True is the
\* bool of value 1, "15" the str that reads as 15, 15.0 the float of value 15.
PyInt(n) == [t |-> "int", v |-> n]
PyTrue == [t |-> "bool", v |-> 1]
PyFloat == [t |-> "float", v |-> 15]
PyStr == [t |-> "str", v |-> 15]
NoneVal == [t |-> "none", v |-> 0]

\* isinstance(x, int): bool is a subclass of int
IsInstanceInt(x) == x.t \in {"int", "bool"}

\* ------------------------------------------------ datetime (standard library)
MINYEAR == 1
MAXYEAR == 9999
MaxOrdinal == 3652059
MaxDeltaDays == 999999999

DAYS_IN_MONTH == <<31, 28, 31, 30, 31, 30, 31, 31, 30, 31, 30, 31>>
DAYS_BEFORE_MONTH == <<0, 31, 59, 90, 120, 151, 181, 212, 243, 273, 304, 334>>

StdIsLeap(year) == year % 4 = 0 /\ (year % 100 # 0 \/ year % 400 = 0)

StdDaysInMonth(year, month) ==
    IF month = 2 /\ StdIsLeap(year) THEN 29 ELSE DAYS_IN_MONTH[month]

StdDaysBeforeYear(year) ==
    LET y == year - 1
    IN y * 365 + (y \div 4) - (y \div 100) + (y \div 400)

StdDaysBeforeMonth(year, month) ==
    DAYS_BEFORE_MONTH[month] + (IF month > 2 /\ StdIsLeap(year) THEN 1 ELSE 0)

\* date.toordinal(): 1 January of year 1 is day 1
Ymd2Ord(year, month, day) ==
    StdDaysBeforeYear(year) + StdDaysBeforeMonth(year, month) + day

\* date.fromordinal(n): the (year, month, day) of ordinal n
Ord2Ymd(ordinal) ==
    LET n0 == ordinal - 1
        n400 == n0 \div 146097
        r400 == n0 % 146097
        n100 == r400 \div 36524
        r100 == r400 % 36524
        n4 == r100 \div 1461
        r4 == r100 % 1461
        n1 == r4 \div 365
        n == r4 % 365
        year == n400 * 400 + 1 + n100 * 100 + n4 * 4 + n1
        leapyear == n1 = 3 /\ (n4 # 24 \/ n100 = 3)
        m0 == (n + 50) \div 32
        p0 == DAYS_BEFORE_MONTH[m0] + (IF m0 > 2 /\ leapyear THEN 1 ELSE 0)
        month == IF p0 > n THEN m0 - 1 ELSE m0
        preceding == IF p0 > n
                     THEN p0 - (DAYS_IN_MONTH[month]
                                + (IF month = 2 /\ leapyear THEN 1 ELSE 0))
                     ELSE p0
    IN IF n1 = 4 \/ n100 = 4
       THEN [year |-> year - 1, month |-> 12, day |-> 31]
       ELSE [year |-> year, month |-> month, day |-> n - preceding + 1]

\* datetime.date(year, month, day): ValueError outside MINYEAR..MAXYEAR or for
\* a month or day that does not exist; otherwise the date, held by its ordinal
StdDate(year, month, day) ==
    IF /\ year >= MINYEAR /\ year <= MAXYEAR
       /\ month >= 1 /\ month <= 12
       /\ day >= 1 /\ day <= StdDaysInMonth(year, month)
    THEN [kind |-> "ok", ord |-> Ymd2Ord(year, month, day)]
    ELSE [kind |-> "ValueError", ord |-> 0]

\* datetime.timedelta(days=n): OverflowError beyond 999999999 days
StdTimedelta(n) ==
    IF n >= -MaxDeltaDays /\ n <= MaxDeltaDays
    THEN [kind |-> "ok", days |-> n]
    ELSE [kind |-> "OverflowError", days |-> 0]

\* date + timedelta: OverflowError when the result leaves 0001-01-01..9999-12-31
StdDatePlus(ord, n) ==
    IF ord + n >= 1 /\ ord + n <= MaxOrdinal
    THEN [kind |-> "ok", ord |-> ord + n]
    ELSE [kind |-> "OverflowError", ord |-> 0]

\* date.weekday(): 0 = Monday .. 6 = Sunday
StdWeekday(ord) == (ord + 6) % 7

\* ------------------------------------------------------------ class Date
NoDate == [day |-> NoneVal, month |-> NoneVal, year |-> NoneVal]
MkDate(day, month, year) == [day |-> day, month |-> month, year |-> year]

\* the outcome of a call: what it returned or which exception it raised
Outcome(kind, msg, date, num) ==
    [kind |-> kind, msg |-> msg, date |-> date, num |-> num]
Raises(kind, msg) == Outcome(kind, msg, NoDate, 0)

\* Date._is_leap_year(year)
IsLeapNo400(year) == year % 4 = 0 /\ year % 100 # 0
_is_leap_year(year) == year % 4 = 0 /\ (year % 100 # 0 \/ year % 400 = 0)

\* max_day of Date.__init__
MaxDayFebruary29(month, year) ==
    IF month = 2 THEN 29
    ELSE IF month \in {4, 6, 9, 11} THEN 30
    ELSE 31
max_day(month, year) ==
    IF month = 2 THEN (IF _is_leap_year(year) THEN 29 ELSE 28)
    ELSE IF month \in {4, 6, 9, 11} THEN 30
    ELSE 31

\* Date.__init__(day, month, year)
InitMonthBeforeYear(day, month, year) ==
    IF ~(IsInstanceInt(day) /\ IsInstanceInt(month) /\ IsInstanceInt(year))
    THEN Raises("TypeError", "integers")
    ELSE IF month.v < 1 \/ month.v > 12 THEN Raises("ValueError", "month")
    ELSE IF year.v <= 0 THEN Raises("ValueError", "year")
    ELSE IF day.v < 1 THEN Raises("ValueError", "day")
    ELSE IF day.v > max_day(month.v, year.v) THEN Raises("ValueError", "max_day")
    ELSE Outcome("ok", "", MkDate(day, month, year), 0)
__init__(day, month, year) ==
    IF ~(IsInstanceInt(day) /\ IsInstanceInt(month) /\ IsInstanceInt(year))
    THEN Raises("TypeError", "integers")
    ELSE IF year.v <= 0 THEN Raises("ValueError", "year")
    ELSE IF month.v < 1 \/ month.v > 12 THEN Raises("ValueError", "month")
    ELSE IF day.v < 1 THEN Raises("ValueError", "day")
    ELSE IF day.v > max_day(month.v, year.v) THEN Raises("ValueError", "max_day")
    ELSE Outcome("ok", "", MkDate(day, month, year), 0)

\* comparison of two 3-tuples as Python compares tuples: the first position
\* where they differ decides
TupleEq(s, t) == \A i \in 1..3 : s[i] = t[i]
TupleLt(s, t) ==
    \E i \in 1..3 : s[i] < t[i] /\ \A j \in 1..(i - 1) : s[j] = t[j]

\* Date.__eq__, Date.__lt__, Date.__gt__ (other is a Date)
__eq__(self, other) ==
    TupleEq(<<self.day.v, self.month.v, self.year.v>>,
            <<other.day.v, other.month.v, other.year.v>>)
LtDayFirst(self, other) ==
    TupleLt(<<self.day.v, self.month.v, self.year.v>>,
            <<other.day.v, other.month.v, other.year.v>>)
__lt__(self, other) ==
    TupleLt(<<self.year.v, self.month.v, self.day.v>>,
            <<other.year.v, other.month.v, other.day.v>>)
__gt__(self, other) ==
    TupleLt(<<other.year.v, other.month.v, other.day.v>>,
            <<self.year.v, self.month.v, self.day.v>>)

\* Date.__sub__(other): both operands go through datetime.date first
__sub__(self, other) ==
    LET d1 == StdDate(self.year.v, self.month.v, self.day.v)
        d2 == StdDate(other.year.v, other.month.v, other.day.v)
    IN IF d1.kind # "ok" THEN Raises(d1.kind, "out of range")
       ELSE IF d2.kind # "ok" THEN Raises(d2.kind, "out of range")
       ELSE Outcome("ok", "", NoDate, d1.ord - d2.ord)

\* Date.__add__(days)
AddMonthDaySwapped(self, days) ==
    IF ~IsInstanceInt(days) THEN Raises("NotImplemented", "")
    ELSE LET d0 == StdDate(self.year.v, self.month.v, self.day.v)
             td == StdTimedelta(days.v)
         IN IF d0.kind # "ok" THEN Raises(d0.kind, "out of range")
            ELSE IF td.kind # "ok" THEN Raises(td.kind, "timedelta")
            ELSE LET d == StdDatePlus(d0.ord, td.days)
                 IN IF d.kind # "ok" THEN Raises(d.kind, "date value")
                    ELSE LET r == Ord2Ymd(d.ord)
                         IN __init__(PyInt(r.month), PyInt(r.day), PyInt(r.year))
__add__(self, days) ==
    IF ~IsInstanceInt(days) THEN Raises("NotImplemented", "")
    ELSE LET d0 == StdDate(self.year.v, self.month.v, self.day.v)
             td == StdTimedelta(days.v)
         IN IF d0.kind # "ok" THEN Raises(d0.kind, "out of range")
            ELSE IF td.kind # "ok" THEN Raises(td.kind, "timedelta")
            ELSE LET d == StdDatePlus(d0.ord, td.days)
                 IN IF d.kind # "ok" THEN Raises(d.kind, "date value")
                    ELSE LET r == Ord2Ymd(d.ord)
                         IN __init__(PyInt(r.day), PyInt(r.month), PyInt(r.year))

\* Date.is_leap_year()
is_leap_year(self) == _is_leap_year(self.year.v)

\* Date.day_of_week(): the table and the lookup
days == <<"Ponedilok", "Vivtorok", "Sereda", "Chetver",
          "Pyatnytsya", "Subota", "Nedilya">>
day_of_week(self) ==
    LET d == StdDate(self.year.v, self.month.v, self.day.v)
    IN IF d.kind # "ok" THEN Raises(d.kind, "out of range")
       ELSE Outcome("ok", days[StdWeekday(d.ord) + 1], NoDate, StdWeekday(d.ord))

\* --------------------------------------------------------------- the program
VARIABLES a, b, res
vars == <<a, b, res>>

\* inputs of the constructor: boundary days, months and years, and one value
\* of each non-int type
DayNums == {0, 1, 28, 29, 30, 31, 32}
MonthNums == {0, 1, 2, 4, 12, 13}
YearNums == {-1, 0, 1, 2024, 2025, 9999, 10000}
DayInputs == {PyInt(d) : d \in DayNums} \cup {PyTrue, PyStr}
MonthInputs == {PyInt(m) : m \in MonthNums} \cup {PyFloat}
YearInputs == {PyInt(y) : y \in YearNums} \cup {PyStr}
\* years handed to the static helper Date._is_leap_year
StaticYears == {1, 4, 100, 400, 1900, 2000, 2024, 2025, 9999, 10000}
\* offsets of d + n: short steps, month and year lengths, the timedelta limit
OffsetNums == (-MaxStep..MaxStep)
              \cup {-366, -365, -31, 31, 365, 366, -1000000000, 1000000000}
Offsets == {PyInt(n) : n \in OffsetNums} \cup {PyTrue, PyFloat}

\* the last call: its name, its arguments and what came of it
Call(op, day, month, year, n, out, eq, lt, gt, leap) ==
    [op |-> op, day |-> day, month |-> month, year |-> year, n |-> n,
     kind |-> out.kind, msg |-> out.msg, date |-> out.date, num |-> out.num,
     eq |-> eq, lt |-> lt, gt |-> gt, leap |-> leap]
NoOut == Outcome("none", "", NoDate, 0)
Returned == Outcome("ok", "", NoDate, 0)

\* an exception of the last call ended the run
Ended == res.kind \notin {"ok", "none"}

Init ==
    /\ a = NoDate
    /\ b = NoDate
    /\ res = Call("start", NoneVal, NoneVal, NoneVal, NoneVal, NoOut,
                  FALSE, FALSE, FALSE, FALSE)

\* a = Date(day, month, year)
Create1(day, month, year) ==
    /\ ~Ended
    /\ a = NoDate
    /\ LET out == __init__(day, month, year)
       IN /\ a' = out.date
          /\ res' = Call("create", day, month, year, NoneVal, out,
                         FALSE, FALSE, FALSE, FALSE)
    /\ UNCHANGED b

\* b = Date(day, month, year)
Create2(day, month, year) ==
    /\ ~Ended
    /\ a # NoDate
    /\ b = NoDate
    /\ LET out == __init__(day, month, year)
       IN /\ b' = out.date
          /\ res' = Call("create", day, month, year, NoneVal, out,
                         FALSE, FALSE, FALSE, FALSE)
    /\ UNCHANGED a

Ready == ~Ended /\ a # NoDate /\ b # NoDate

\* a == b, a < b, a > b
Compare ==
    /\ Ready
    /\ res' = Call("cmp", NoneVal, NoneVal, NoneVal, NoneVal, Returned,
                   __eq__(a, b), __lt__(a, b), __gt__(a, b), FALSE)
    /\ UNCHANGED <<a, b>>

\* a - b
Subtract ==
    /\ Ready
    /\ res' = Call("sub", NoneVal, NoneVal, NoneVal, NoneVal, __sub__(a, b),
                   FALSE, FALSE, FALSE, FALSE)
    /\ UNCHANGED <<a, b>>

\* a + n; NotImplemented from __add__ makes the + expression a TypeError
AddDays(n) ==
    /\ Ready
    /\ LET r == __add__(a, n)
           out == IF r.kind = "NotImplemented"
                  THEN Raises("TypeError", "unsupported operand")
                  ELSE r
       IN res' = Call("add", NoneVal, NoneVal, NoneVal, n, out,
                      FALSE, FALSE, FALSE, FALSE)
    /\ UNCHANGED <<a, b>>

\* a.is_leap_year()
LeapYear ==
    /\ Ready
    /\ res' = Call("leap", NoneVal, NoneVal, NoneVal, NoneVal, Returned,
                   FALSE, FALSE, FALSE, is_leap_year(a))
    /\ UNCHANGED <<a, b>>

\* Date._is_leap_year(y)
StaticLeapYear(y) ==
    /\ ~Ended
    /\ a = NoDate
    /\ res' = Call("static_leap", NoneVal, NoneVal, PyInt(y), NoneVal, Returned,
                   FALSE, FALSE, FALSE, _is_leap_year(y))
    /\ UNCHANGED <<a, b>>

\* a.day_of_week()
DayOfWeek ==
    /\ Ready
    /\ res' = Call("dow", NoneVal, NoneVal, NoneVal, NoneVal, day_of_week(a),
                   FALSE, FALSE, FALSE, FALSE)
    /\ UNCHANGED <<a, b>>

\* the script is started again
Restart ==
    /\ Ended \/ (a # NoDate /\ b # NoDate)
    /\ a' = NoDate
    /\ b' = NoDate
    /\ res' = Call("start", NoneVal, NoneVal, NoneVal, NoneVal, NoOut,
                   FALSE, FALSE, FALSE, FALSE)

Next ==
    \/ \E day \in DayInputs, month \in MonthInputs, year \in YearInputs :
          Create1(day, month, year)
    \/ \E day \in DayInputs, month \in MonthInputs, year \in YearInputs :
          Create2(day, month, year)
    \/ Compare
    \/ Subtract
    \/ \E n \in Offsets : AddDays(n)
    \/ LeapYear
    \/ \E y \in StaticYears : StaticLeapYear(y)
    \/ DayOfWeek
    \/ Restart

Spec == Init /\ [][Next]_vars

\* ------------------------------------------------------------- properties
\* the calendar as the claims word it
RuleLeap(y) == (y % 4 = 0 /\ y % 100 # 0) \/ y % 400 = 0
RuleMaxDay(m, y) ==
    CASE m = 2 /\ RuleLeap(y) -> 29
      [] m = 2 /\ ~RuleLeap(y) -> 28
      [] m \in {4, 6, 9, 11} -> 30
      [] OTHER -> 31
RealDay(d, m, y) == y >= 1 /\ m >= 1 /\ m <= 12 /\ d >= 1 /\ d <= RuleMaxDay(m, y)
IsInteger(x) == x.t = "int"
NonInteger(x) == x.t \in {"float", "str"}
IntLike(x) == x.t \in {"int", "bool"}
LexLess(x, y) ==
    \/ x.year.v < y.year.v
    \/ x.year.v = y.year.v /\ x.month.v < y.month.v
    \/ x.year.v = y.year.v /\ x.month.v = y.month.v /\ x.day.v < y.day.v
Ordinal(x) == Ymd2Ord(x.year.v, x.month.v, x.day.v)
D(day, month, year) == MkDate(PyInt(day), PyInt(month), PyInt(year))

\* C1: for integer triples, Date(day, month, year) succeeds exactly when
\* year >= 1, 1 <= month <= 12 and 1 <= day <= max_day(month, year); and every
\* Date that exists (constructed, or returned by date + days) is a real
\* calendar day.
C1_ConstructionGate ==
    /\ (res.op = "create" /\ IsInteger(res.day) /\ IsInteger(res.month)
            /\ IsInteger(res.year))
         => /\ res.kind = "ok" <=> RealDay(res.day.v, res.month.v, res.year.v)
            /\ res.kind = "ok" => res.date = MkDate(res.day, res.month, res.year)
            /\ res.kind # "ok" => res.date = NoDate
    /\ \A x \in {a, b, res.date} :
          x # NoDate => RealDay(x.day.v, x.month.v, x.year.v)
C1_Witness ==
    /\ res.op = "create" /\ res.kind = "ok"
    /\ a = D(29, 2, 2024) /\ b = D(31, 12, 9999)

C3_TypeGuard ==
    (res.op = "create"
        /\ ~(IsInteger(res.day) /\ IsInteger(res.month) /\ IsInteger(res.year)))
      => (res.kind = "TypeError" /\ res.date = NoDate)

\* C4: a < b exactly when (year, month, day) of a is lexicographically smaller
\* than that of b, a > b exactly when it is larger, a == b exactly when the
\* three fields are equal; exactly one of the three holds, and the order is
\* the chronological one.
C4_Ordering ==
    res.op = "cmp" =>
      /\ res.lt <=> LexLess(a, b)
      /\ res.gt <=> LexLess(b, a)
      /\ res.eq <=> (a.day.v = b.day.v /\ a.month.v = b.month.v
                        /\ a.year.v = b.year.v)
      /\ Cardinality({k \in {"lt", "eq", "gt"} : res[k]}) = 1
      /\ res.lt <=> Ordinal(a) < Ordinal(b)
      /\ res.gt <=> Ordinal(a) > Ordinal(b)
C4_Witness ==
    /\ res.op = "cmp"
    /\ a = D(29, 2, 2024) /\ b = D(1, 1, 2025)
    /\ res.lt /\ ~res.gt /\ ~res.eq

\* C5: for all Dates a and b, a - b returns an integer, a - b == -(b - a), and
\* its sign agrees with the ordering of a and b.
C5_DifferenceSign ==
    res.op = "sub" =>
      /\ res.kind = "ok"
      /\ res.num = -(__sub__(b, a).num)
      /\ res.num > 0 <=> __gt__(a, b)
      /\ res.num = 0 <=> __eq__(a, b)
      /\ res.num < 0 <=> __lt__(a, b)

\* C6: for all Dates a and b, b + (a - b) succeeds and returns a Date equal
\* to a.
C6_DifferenceThenOffset ==
    res.op = "sub" =>
      /\ res.kind = "ok"
      /\ LET r == __add__(b, PyInt(res.num))
         IN r.kind = "ok" /\ __eq__(r.date, a)

\* C7: for every Date a, a + 0 returns a Date equal to a; and when a + n
\* succeeds, (a + n) + (-n) returns a Date equal to a and (a + n) - a == n.
C7_OffsetIdentity ==
    (res.op = "add" /\ IntLike(res.n)) =>
      /\ res.n.v = 0 => (res.kind = "ok" /\ __eq__(res.date, a))
      /\ res.kind = "ok" =>
           LET back == __add__(res.date, PyInt(-res.n.v))
               diff == __sub__(res.date, a)
           IN /\ back.kind = "ok" /\ __eq__(back.date, a)
              /\ diff.kind = "ok" /\ diff.num = res.n.v

C9_LeapYear ==
    /\ res.op = "leap" => (res.leap <=> RuleLeap(a.year.v))
    /\ res.op = "static_leap" =>
          /\ res.leap <=> RuleLeap(res.year.v)
          /\ res.year.v \in {2024, 2000} => res.leap
          /\ res.year.v \in {2025, 1900} => ~res.leap
    /\ (res.op = "create" /\ res.day = PyInt(29) /\ res.month = PyInt(2)
            /\ IsInteger(res.year) /\ res.year.v >= 1)
          => (res.kind = "ok" <=> RuleLeap(res.year.v))
C9_Witness ==
    /\ res.op = "leap" /\ a = D(29, 2, 2024) /\ res.leap

\* C10: for every Date a (any year >= 1), a.day_of_week() returns the entry
\* (a - Date(1, 1, 1)) mod 7 of the Monday-first table, and the name of a + 1
\* is the cyclic successor of the name of a.
C10_DayOfWeek ==
    res.op = "dow" =>
      /\ res.kind = "ok"
      /\ \E i \in 1..7 : res.msg = days[i]
      /\ res.msg = days[(__sub__(a, D(1, 1, 1)).num % 7) + 1]
      /\ LET next == __add__(a, PyInt(1))
         IN next.kind = "ok" =>
              day_of_week(next.date).msg = days[((res.num + 1) % 7) + 1]

====
